---- MODULE Spec2Model ----
(***************************************************************************)
(* Model of modeltools/__init__.py: PropertyFormatter (lazy formatting of  *)
(* model properties and key discovery over related models),                *)
(* format_filename / upload_to, and Enum.                                  *)
(*                                                                         *)
(* Strings are sequences of one-character strings.  Model instances are    *)
(* the numbers 1..NRec, 0 is None for a relation.  The source is Python 2  *)
(* code (PropertyFormatter.keys extends the list dict.keys() returns with  *)
(* +=), so dict.keys() / dict.values() are lists in the dict's own         *)
(* iteration order, which the language leaves unspecified.                 *)
(***************************************************************************)
EXTENDS Integers, Sequences, FiniteSets, TLC

\* Number of model instances in the record graph.
NRec == 3
\* Largest number of constants given to Enum(...).
MaxEnum == 2

VARIABLES
    rel,             \* rel[r][f]: the instance the relation field f of r holds, 0 = None
    val,             \* val[r]: the value of the scalar field "n" of r
    checked_models,  \* the list object that is _add_related_keys' default argument
    last,            \* the last call made and what it returned
    kwargs,          \* Enum.__kwargs as passed: the (name, code, label) entries
    order,           \* iteration order of the __kwargs dict
    choices,         \* Enum.__choices
    conf,            \* the formatter in use: its keyword arguments and its model
    stack,           \* frames of a keys() call in progress
    acc              \* the keys list of a keys() call in progress

vars == <<rel, val, checked_models, last, kwargs, order, choices, conf, stack, acc>>

Recs == 1..NRec

Range(s) == {s[i] : i \in DOMAIN s}

(***************************************************************************)
(* The record graph: two model classes.  Odd instances are of class "A"    *)
(* (fields n, a -> A, b -> B), even ones of class "B" (fields n, a -> A).  *)
(***************************************************************************)
SchemaOf(r) == IF r % 2 = 1 THEN "A" ELSE "B"

\* model._meta.fields: name and field.rel (the class related to, "" for None)
MetaFields(r) ==
    IF SchemaOf(r) = "A"
    THEN << [name |-> <<"n">>, rel |-> ""],
            [name |-> <<"a">>, rel |-> "A"],
            [name |-> <<"b">>, rel |-> "B"] >>
    ELSE << [name |-> <<"n">>, rel |-> ""],
            [name |-> <<"a">>, rel |-> "A"] >>

RelNames(r) == {f.name : f \in {g \in Range(MetaFields(r)) : g.rel # ""}}

Graphs ==
    { g \in [Recs -> [{<<"a">>, <<"b">>} -> Recs \cup {0}]] :
        \A r \in Recs :
            /\ g[r][<<"a">>] # 0 => SchemaOf(g[r][<<"a">>]) = "A"
            /\ IF SchemaOf(r) = "A"
               THEN g[r][<<"b">>] # 0 => SchemaOf(g[r][<<"b">>]) = "B"
               ELSE g[r][<<"b">>] = 0 }

(***************************************************************************)
(* Values: None, a model instance, or a string.                            *)
(***************************************************************************)
None    == [t |-> "none", r |-> 0, s |-> <<>>]
RecV(r) == [t |-> "rec", r |-> r, s |-> <<>>]
StrV(s) == [t |-> "str", r |-> 0, s |-> s]

\* getattr(value, name), None standing for AttributeError as line 22-23 makes it
GetAttr(value, name) ==
    IF value.t # "rec" THEN None
    ELSE IF name = <<"n">> THEN StrV(val[value.r])
    ELSE IF name \in RelNames(value.r)
         THEN IF rel[value.r][name] = 0 THEN None ELSE RecV(rel[value.r][name])
    ELSE None

\* str(value)
Str(value) ==
    IF value.t = "none" THEN <<"N", "o", "n", "e">>
    ELSE IF value.t = "rec" THEN <<SchemaOf(value.r), " ", "o", "b">>
    ELSE value.s

Upper == {"A", "B", "N", "P", "T", "X"}
LowerOf(c) ==
    CASE c = "A" -> "a" [] c = "B" -> "b" [] c = "N" -> "n"
      [] c = "P" -> "p" [] c = "T" -> "t" [] c = "X" -> "x" [] OTHER -> c

\* str.lower()
Lower(s) == [i \in DOMAIN s |-> LowerOf(s[i])]

IsSpace(c) == c \in {" ", "\t"}
IsWord(c)  == c \in {"a", "b", "d", "n", "o", "e", "p", "t", "x", "z", "g", "_", "1"} \cup Upper

\* key.split('__'): leftmost, non-overlapping occurrences of the separator
RECURSIVE SplitFrom(_, _, _)
SplitFrom(s, i, cur) ==
    IF i > Len(s) THEN <<cur>>
    ELSE IF s[i] = "_" /\ i + 1 <= Len(s) /\ s[i + 1] = "_"
         THEN <<cur>> \o SplitFrom(s, i + 2, <<>>)
         ELSE SplitFrom(s, i + 1, Append(cur, s[i]))

Split(s) == SplitFrom(s, 1, <<>>)

\* '__'.join(parts)
RECURSIVE Join(_)
Join(parts) ==
    IF parts = <<>> THEN <<>>
    ELSE IF Len(parts) = 1 THEN parts[1]
    ELSE parts[1] \o <<"_", "_">> \o Join(Tail(parts))

\* re.sub('[^\w\s]+', '', value): every run of other characters is dropped
RECURSIVE StripNonWord(_)
StripNonWord(s) ==
    IF s = <<>> THEN <<>>
    ELSE IF IsWord(Head(s)) \/ IsSpace(Head(s))
         THEN <<Head(s)>> \o StripNonWord(Tail(s))
         ELSE StripNonWord(Tail(s))

\* re.sub('\s+', delim, value): each maximal run of whitespace becomes delim
RECURSIVE SubSpace(_, _, _)
SubSpace(s, delim, inrun) ==
    IF s = <<>> THEN <<>>
    ELSE IF IsSpace(Head(s))
         THEN (IF inrun THEN <<>> ELSE delim) \o SubSpace(Tail(s), delim, TRUE)
         ELSE <<Head(s)>> \o SubSpace(Tail(s), delim, FALSE)

\* the while loop of __getitem__, lines 19-25
RECURSIVE Chain(_, _)
Chain(value, prop_chain) ==
    IF prop_chain = <<>> THEN value
    ELSE LET v == GetAttr(value, Head(prop_chain))
         IN  IF v = None THEN None ELSE Chain(v, Tail(prop_chain))

\* whitespace replaced before the other characters are dropped
CleanSubFirst(value, o) ==
    LET s1 == Str(value)
        s2 == IF o.lowercase THEN Lower(s1) ELSE s1
        s3 == SubSpace(s2, o.word_delimiter, FALSE)
    IN  IF ~o.nonwordchars THEN StripNonWord(s3) ELSE s3

\* lines 26-31 of __getitem__
Clean(value, o) ==
    LET s1 == Str(value)
        s2 == IF o.lowercase THEN Lower(s1) ELSE s1
        s3 == IF ~o.nonwordchars THEN StripNonWord(s2) ELSE s2
    IN  SubSpace(s3, o.word_delimiter, FALSE)

\* PropertyFormatter(model, ...)[key]
GetItem(model, key, o) == Clean(Chain(RecV(model), Split(key)), o)

(***************************************************************************)
(* Key discovery: keys(), _add_related_keys(), _get_keys().                *)
(***************************************************************************)
\* The interpreter's recursion limit, scaled to the graph: the deepest walk
\* the guard of line 41 allows enters NRec instances and is turned away once.
RecursionLimit == NRec + 2

\* model.__dict__.keys(): the instance's own attributes, one per field
_get_keys(model) == [i \in DOMAIN MetaFields(model) |-> MetaFields(model)[i].name]

\* guard keyed by the instance's class instead of the instance
VisitedSchema(model, checked) ==
    \E i \in DOMAIN checked : SchemaOf(checked[i]) = SchemaOf(model)

\* line 41: model in checked_models
Visited(model, checked) == \E i \in DOMAIN checked : checked[i] = model

\* the append forgotten
MarkNothing(checked, model) == checked

\* line 42: checked_models.append(model)
MarkChecked(checked, model) == Append(checked, model)

\* the field name alone, the prefixes walked so far forgotten
PreFieldOnly(prefixes, name) == <<name>>

\* lines 47-48: pre = prefixes[:]; pre.append(field.name)
Pre(prefixes, name) == Append(prefixes, name)

\* line 50: ['%s__%s' % (p, k) for k in cls._get_keys(m)]
PrefixedKeys(p, m) ==
    [i \in DOMAIN _get_keys(m) |-> p \o <<"_", "_">> \o _get_keys(m)[i]]

\* lines 44-46: the instance a relation field holds, 0 for a plain field or None
Related(model, field) == IF field.rel # "" THEN rel[model][field.name] ELSE 0

(* _add_related_keys(model, keys, prefixes, checked_models).  st carries the
   two lists the call mutates (keys, checked), the instances whose fields
   the call went through with the prefixes they were entered with
   (expanded), and whether the recursion limit was hit (err). *)
RECURSIVE _add_related_keys(_, _, _, _), FieldLoop(_, _, _, _, _)
_add_related_keys(model, st, prefixes, depth) ==
    IF st.err THEN st
    ELSE IF depth > RecursionLimit THEN [st EXCEPT !.err = TRUE]
    ELSE IF Visited(model, st.checked) THEN st
    ELSE FieldLoop(model,
                   [st EXCEPT !.checked = MarkChecked(@, model),
                              !.expanded = Append(@, [rec |-> model, pre |-> prefixes])],
                   prefixes, depth, 1)

\* the for loop of lines 43-51, from the i-th field on
FieldLoop(model, st, prefixes, depth, i) ==
    IF st.err \/ i > Len(MetaFields(model)) THEN st
    ELSE LET field == MetaFields(model)[i]
             m     == Related(model, field)
             pre   == Pre(prefixes, field.name)
             p     == Join(pre)
         IN  IF m # 0
             THEN FieldLoop(model,
                            _add_related_keys(m,
                                [st EXCEPT !.keys = @ \o PrefixedKeys(p, m)],
                                pre, depth + 1),
                            prefixes, depth, i + 1)
             ELSE FieldLoop(model, st, prefixes, depth, i + 1)

\* PropertyFormatter(model, ...).keys(), entered with the default list as it is
keys(model, checked) ==
    _add_related_keys(model,
        [keys |-> _get_keys(model), checked |-> checked, expanded |-> <<>>, err |-> FALSE],
        <<>>, 1)

(***************************************************************************)
(* format_filename(...).upload_to(self, old_filename)                      *)
(***************************************************************************)
\* index of the last c in s, 0 if there is none (str.rfind, 1-based)
RFind(s, c) ==
    IF \E i \in DOMAIN s : s[i] = c
    THEN CHOOSE i \in DOMAIN s : s[i] = c /\ \A j \in DOMAIN s : s[j] = c => j <= i
    ELSE 0

\* os.path.splitext(p)[1]: from the last dot of the last path component on,
\* unless only dots precede it in that component
splitext(p) ==
    LET sepIndex == RFind(p, "/")
        dotIndex == RFind(p, ".")
    IN  IF dotIndex > sepIndex
           /\ \E k \in (sepIndex + 1)..(dotIndex - 1) : p[k] # "."
        THEN SubSeq(p, dotIndex, Len(p))
        ELSE <<>>

Ok(s)     == [err |-> "", s |-> s]
Raise(e)  == [err |-> e, s |-> <<>>]

\* first index >= i of c in s, 0 if there is none
RECURSIVE Find(_, _, _)
Find(s, c, i) ==
    IF i > Len(s) THEN 0 ELSE IF s[i] = c THEN i ELSE Find(s, c, i + 1)

\* kwargs[name] for the dict the call builds from wrapper.keys() and wrapper[k]
Lookup(model, ks, name, o) ==
    IF name \in Range(ks) THEN Ok(GetItem(model, name, o)) ELSE Raise("KeyError")

(* pattern.format with the wrapper's items, from position i on: literal text, {{ and }},
   and replacement fields {name}; an empty name is positional, and there are
   no positional arguments. *)
RECURSIVE Format(_, _, _, _, _)
Format(pattern, i, model, ks, o) ==
    IF i > Len(pattern) THEN Ok(<<>>)
    ELSE LET c    == pattern[i]
             twin == i + 1 <= Len(pattern) /\ pattern[i + 1] = c
             cons(r, rest) == IF r.err # "" THEN r
                              ELSE IF rest.err # "" THEN rest
                              ELSE Ok(r.s \o rest.s)
         IN  IF c \in {"{", "}"} /\ twin
             THEN cons(Ok(<<c>>), Format(pattern, i + 2, model, ks, o))
             ELSE IF c = "}" THEN Raise("ValueError")
             ELSE IF c = "{"
             THEN LET close == Find(pattern, "}", i + 1)
                      name  == SubSeq(pattern, i + 1, close - 1)
                  IN  IF close = 0 \/ "{" \in Range(name) THEN Raise("ValueError")
                      ELSE IF name = <<>> THEN Raise("IndexError")
                      ELSE cons(Lookup(model, ks, name, o),
                                Format(pattern, close + 1, model, ks, o))
             ELSE cons(Ok(<<c>>), Format(pattern, i + 1, model, ks, o))

\* the extension run through lower() like the resolved values
ExtensionLowered(old_filename) == Lower(splitext(old_filename))

\* line 69
Extension(old_filename) == splitext(old_filename)

\* lines 72-73
AddExtension(filename, extension, add_extension) ==
    IF add_extension THEN filename \o extension ELSE filename

(* upload_to(self, old_filename) of format_filename configured by cfg: what it returns
   or raises (out) and the default list after the call (checked). *)
upload_to(cfg, model, old_filename, checked) ==
    LET extension == Extension(old_filename)
        ks        == keys(model, checked)
        filename  == Format(cfg.pattern, 1, model, ks.keys, cfg)
    IN  [checked |-> ks.checked,
         out |-> IF ks.err THEN Raise("RuntimeError")
                 ELSE IF filename.err # "" THEN filename
                 ELSE Ok(AddExtension(filename.s, extension, cfg.add_extension))]

(***************************************************************************)
(* State machine: calls on a fixed record graph.                           *)
(***************************************************************************)
\* the keyword arguments of format_filename, defaults of line 58
Cfg(pattern, add_extension, lowercase, nonwordchars, word_delimiter) ==
    [pattern |-> pattern, add_extension |-> add_extension, lowercase |-> lowercase,
     nonwordchars |-> nonwordchars, word_delimiter |-> word_delimiter]

DefaultCfg(pattern) == Cfg(pattern, TRUE, TRUE, FALSE, <<"_">>)

NoCall ==
    [op |-> "none", root |-> 0, cfg |-> DefaultCfg(<<>>), arg |-> <<>>,
     out |-> Ok(<<>>), keys |-> <<>>, expanded |-> <<>>, first |-> FALSE,
     list |-> <<>>, value |-> None]

DefaultVal == [r \in Recs |-> IF SchemaOf(r) = "A" THEN <<"A", "d", " ", "T">> ELSE <<"B", "-", "1">>]

\* patterns the upload paths are built from
Patterns ==
    { <<"{", "a", "_", "_", "n", "}", "_", "{", "n", "}">>,
      <<"{", "b", "_", "_", "a", "_", "_", "n", "}">>,
      <<"{", "z", "}">>,
      <<"{", "n">>,
      <<"x">> }

NoEnum == /\ kwargs = <<>> /\ order = <<>> /\ choices = <<>>
NoConf == [cfg |-> DefaultCfg(<<>>), model |-> 0]
NoWalk == /\ stack = <<>> /\ acc = <<>>

Init ==
    /\ rel \in Graphs
    /\ val = DefaultVal
    /\ checked_models = <<>>
    /\ last = NoCall
    /\ conf = NoConf
    /\ NoEnum
    /\ NoWalk

\* wrapper.keys() on PropertyFormatter(root, ...)
Keys(root) ==
    LET res == keys(root, checked_models)
    IN  /\ checked_models' = res.checked
        /\ last' = [NoCall EXCEPT !.op = "keys", !.root = root, !.keys = res.keys,
                                  !.expanded = res.expanded,
                                  !.out = IF res.err THEN Raise("RuntimeError") ELSE Ok(<<>>),
                                  !.first = (checked_models = <<>>)]
        /\ UNCHANGED <<rel, val, kwargs, order, choices, conf, stack, acc>>

\* the upload_to made by format_filename with cfg, called on (root, old_filename)
Build(cfg, root, old_filename) ==
    LET res == upload_to(cfg, root, old_filename, checked_models)
    IN  /\ checked_models' = res.checked
        /\ last' = [NoCall EXCEPT !.op = "build", !.root = root, !.cfg = cfg,
                                  !.arg = old_filename, !.out = res.out,
                                  !.first = (checked_models = <<>>)]
        /\ UNCHANGED <<rel, val, kwargs, order, choices, conf, stack, acc>>

Next ==
    \/ \E root \in Recs : Keys(root)
    \/ \E root \in Recs, pattern \in Patterns :
           Build(DefaultCfg(pattern), root, <<"p", ".", "P">>)

Spec == Init /\ [][Next]_vars

KeysNext == \E root \in Recs : Keys(root)

\* keys() calls only
KeysSpec == Init /\ [][KeysNext]_vars

(***************************************************************************)
(* Claims about keys() and upload_to().                                    *)
(***************************************************************************)
NoDup(seq) == \A i, j \in DOMAIN seq : seq[i] = seq[j] => i = j

\* the names of the fields of an instance
DirectKeys(r) == {f.name : f \in Range(MetaFields(r))}

\* braces pair up: {{ and }} are text, a { is closed by the next } with no { between
RECURSIVE Balanced(_, _, _)
Balanced(p, i, open) ==
    IF i > Len(p) THEN ~open
    ELSE IF open
         THEN p[i] # "{" /\ Balanced(p, i + 1, p[i] # "}")
         ELSE IF p[i] \in {"{", "}"} /\ i + 1 <= Len(p) /\ p[i + 1] = p[i]
              THEN Balanced(p, i + 2, FALSE)
              ELSE p[i] # "}" /\ Balanced(p, i + 1, p[i] = "{")

(* C1: build fails only on a pattern syntax error: with a well-formed
   pattern upload_to returns a string, whatever attribute paths its
   placeholders name.  Violated: a placeholder that keys() does not list
   ends in KeyError. *)
C1_BuildFailsOnlyOnSyntax ==
    (last.op = "build" /\ Balanced(last.cfg.pattern, 1, FALSE)) => last.out.err = ""

(* C2: build is a pure function of its arguments and the record graph: a
   call repeated with the same arguments on the unchanged graph returns
   what the call before it returned.  Violated: the first call lists the
   related keys, the second finds the root in the default list. *)
C2_BuildRepeatable ==
    [][ ( /\ last.op = "build" /\ last'.op = "build"
          /\ last'.root = last.root /\ last'.cfg = last.cfg /\ last'.arg = last.arg
          /\ rel' = rel /\ val' = val )
        => last'.out = last.out ]_vars

(* C3: every keys() call returns the keys a call starting from an empty
   checked list returns on the same graph.  Violated: the list is the
   shared default argument and is never emptied. *)
C3_KeysAsFirstCall ==
    last.op = "keys" => Range(last.keys) = Range(keys(last.root, <<>>).keys)

\* the prefixed keys an expanded instance e contributes
Contributed(e) ==
    UNION { { Join(e.pre \o <<f, k>>) : k \in DirectKeys(rel[e.rec][f]) } :
            f \in {g \in RelNames(e.rec) : rel[e.rec][g] # 0} }

(* C9: a first keys() call returns the root's field names and, for every
   relation field f of an expanded instance that holds an instance r, the
   key prefix__f__k for every field name k of r; the expanded instances
   are the root (empty prefix) and, recursively, the instances held by
   relation fields of expanded instances, each entered under its parent's
   prefix extended by the field name.  None relations contribute nothing. *)
C9_FirstCallKeys ==
    (last.op = "keys" /\ last.first) =>
        LET E == last.expanded
        IN  /\ last.out.err = ""
            /\ Range(last.keys) =
                   DirectKeys(last.root) \cup UNION { Contributed(E[i]) : i \in DOMAIN E }
            /\ E[1] = [rec |-> last.root, pre |-> <<>>]
            /\ \A i \in DOMAIN E : i > 1 =>
                   \E j \in 1..(i - 1) : \E f \in RelNames(E[j].rec) :
                       /\ rel[E[j].rec][f] = E[i].rec
                       /\ E[i].pre = E[j].pre \o <<f>>
            /\ \A i \in DOMAIN E : \A f \in RelNames(E[i].rec) :
                   rel[E[i].rec][f] # 0 =>
                       \E j \in DOMAIN E : E[j].rec = rel[E[i].rec][f]

C9_Witness ==
    /\ last.op = "keys" /\ last.first /\ last.root = 1
    /\ rel[1][<<"a">>] = 0 /\ rel[1][<<"b">>] = 2 /\ rel[2][<<"a">>] = 3
    /\ <<"b", "_", "_", "a", "_", "_", "n">> \in Range(last.keys)
    /\ Len(last.expanded) = 3

(* C10 as stated: within one keys() call no two expanded instances are of
   the same class. *)
C10_OnePerSchema ==
    last.op = "keys" =>
        \A i, j \in DOMAIN last.expanded :
            SchemaOf(last.expanded[i].rec) = SchemaOf(last.expanded[j].rec) => i = j

(* C10 amended: the guard is keyed by instance.  No instance is ever
   expanded twice (the checked list holds each expanded instance once, and
   the instances a call expands are its newest entries), and every instance
   that a relation field of an expanded instance holds has been expanded,
   whatever its class. *)
C10_OnePerInstance ==
    /\ NoDup(checked_models)
    /\ last.op = "keys" =>
        LET E == last.expanded
            n == Len(checked_models)
        IN  /\ last.out.err = ""
            /\ Len(E) <= n
            /\ \A i \in DOMAIN E : E[i].rec = checked_models[n - Len(E) + i]
            /\ \A i \in DOMAIN E : \A f \in RelNames(E[i].rec) :
                   rel[E[i].rec][f] # 0 => rel[E[i].rec][f] \in Range(checked_models)

\* a diamond over two instances of class A: 1 -a-> 3, 1 -b-> 2 -a-> 3
C10_Witness ==
    /\ last.op = "keys" /\ last.first /\ last.root = 1
    /\ rel[1][<<"a">>] = 3 /\ rel[1][<<"b">>] = 2 /\ rel[2][<<"a">>] = 3
    /\ rel[3][<<"a">>] = 1
    /\ [i \in DOMAIN last.expanded |-> last.expanded[i].rec] = <<1, 3, 2>>
    /\ <<"b", "_", "_", "a", "_", "_", "n">> \in Range(last.keys)
    /\ <<"b", "_", "_", "a", "_", "_", "a", "_", "_", "n">> \notin Range(last.keys)

(***************************************************************************)
(* keys() step by step: one frame of _add_related_keys per stack entry,    *)
(* one field of the for loop of lines 43-51 (or one return) per step.      *)
(***************************************************************************)
Frame(model, prefixes, i) == [model |-> model, prefixes |-> prefixes, i |-> i]

\* keys() returns acc, or the recursion limit ends the call
Return(err) ==
    /\ stack' = <<>>
    /\ acc' = <<>>
    /\ last' = [last EXCEPT !.op = "keys", !.keys = IF err = "" THEN acc ELSE <<>>,
                            !.out = IF err = "" THEN Ok(<<>>) ELSE Raise(err)]

\* lines 34-35 and 41-42: keys() is called and enters _add_related_keys(root, keys)
KeysCall(root) ==
    /\ stack = <<>>
    /\ IF Visited(root, checked_models)
       THEN /\ stack' = <<>>
            /\ acc' = <<>>
            /\ last' = [NoCall EXCEPT !.op = "keys", !.root = root, !.keys = _get_keys(root)]
            /\ UNCHANGED checked_models
       ELSE /\ stack' = <<Frame(root, <<>>, 1)>>
            /\ acc' = _get_keys(root)
            /\ last' = [NoCall EXCEPT !.op = "call", !.root = root,
                                      !.first = (checked_models = <<>>)]
            /\ checked_models' = MarkChecked(checked_models, root)
    /\ UNCHANGED <<rel, val, kwargs, order, choices, conf>>

\* the top frame handles its next field, or returns to its caller
Step ==
    /\ stack # <<>>
    /\ LET top    == stack[Len(stack)]
           fields == MetaFields(top.model)
           rest   == SubSeq(stack, 1, Len(stack) - 1)
       IN  IF top.i > Len(fields)
           THEN /\ IF rest = <<>> THEN Return("")
                   ELSE /\ stack' = rest
                        /\ UNCHANGED <<acc, last>>
                /\ UNCHANGED checked_models
           ELSE LET field == fields[top.i]
                    m     == Related(top.model, field)
                    pre   == Pre(top.prefixes, field.name)
                    here  == Append(rest, [top EXCEPT !.i = @ + 1])
                IN  IF m = 0
                    THEN /\ stack' = here
                         /\ UNCHANGED <<acc, last, checked_models>>
                    ELSE IF Len(stack) + 1 > RecursionLimit
                    THEN /\ Return("RuntimeError")
                         /\ UNCHANGED checked_models
                    ELSE IF Visited(m, checked_models)
                    THEN /\ stack' = here
                         /\ acc' = acc \o PrefixedKeys(Join(pre), m)
                         /\ UNCHANGED <<last, checked_models>>
                    ELSE /\ stack' = Append(here, Frame(m, pre, 1))
                         /\ acc' = acc \o PrefixedKeys(Join(pre), m)
                         /\ checked_models' = MarkChecked(checked_models, m)
                         /\ UNCHANGED last
    /\ UNCHANGED <<rel, val, kwargs, order, choices, conf>>

TermNext ==
    \/ \E root \in Recs : KeysCall(root)
    \/ Step

\* a call that was made runs on: the interpreter takes the next step
TermSpec == Init /\ [][TermNext]_vars /\ WF_vars(Step)

(* C5: keys() terminates on every finite relation graph, cycles included,
   whatever calls were made before: a call in progress leads to its return
   (and the recursion limit never ends it). *)
C5_KeysTerminates ==
    (stack # <<>>) ~> (stack = <<>> /\ last.op = "keys" /\ last.out.err = "")

\* a returned first call on the cycle 1 -b-> 2 -a-> 1 with 1 -a-> 1
C5_Witness ==
    /\ stack = <<>> /\ last.op = "keys" /\ last.first /\ last.root = 1
    /\ rel[1][<<"a">>] = 1 /\ rel[1][<<"b">>] = 2 /\ rel[2][<<"a">>] = 1
    /\ <<"b", "_", "_", "a">> \in Range(last.keys)

(***************************************************************************)
(* wrapper[key] on records with varying field values.                      *)
(***************************************************************************)
FieldValues == { <<"A", "d", " ", " ", "T">>, <<" ", "-", "\t", "B", ".">> }

PathKeys ==
    { <<"n">>, <<"a">>, <<"z">>,
      <<"a", "_", "_", "n">>,
      <<"b", "_", "_", "a", "_", "_", "n">>,
      <<"n", "_", "_", "z">>,
      <<"a", "_", "_", "_", "n">> }

Delims == { <<"_">>, <<"-">>, <<"X">> }

\* graphs in which only the instances 1 and 2 hold relations
NearGraphs == { g \in Graphs : \A r \in Recs \ {1, 2} : \A f \in DOMAIN g[r] : g[r][f] = 0 }

\* a PropertyFormatter made for each model and each choice of options
FormatInit ==
    /\ rel \in NearGraphs
    /\ val \in [Recs -> FieldValues]
    /\ checked_models = <<>>
    /\ last = NoCall
    /\ conf \in { [cfg |-> Cfg(<<>>, TRUE, l, w, d), model |-> r] :
                    l \in BOOLEAN, w \in BOOLEAN, d \in Delims, r \in Recs }
    /\ NoEnum
    /\ NoWalk

\* wrapper[key]
GetItemCall(wrapper, key) ==
    /\ last' = [NoCall EXCEPT !.op = "getitem", !.root = wrapper.model, !.cfg = wrapper.cfg,
                              !.arg = key,
                              !.out = Ok(GetItem(wrapper.model, key, wrapper.cfg))]
    /\ UNCHANGED <<rel, val, checked_models, kwargs, order, choices, conf, stack, acc>>

FormatNext == \E key \in PathKeys : GetItemCall(conf, key)

FormatSpec == FormatInit /\ [][FormatNext]_vars

\* the values met along the segments; None once a value is None or lacks the attribute
WalkValues(root, segs) ==
    LET f[k \in 0..Len(segs)] ==
            IF k = 0 THEN RecV(root)
            ELSE IF f[k - 1] = None THEN None
            ELSE GetAttr(f[k - 1], segs[k])
    IN  f[Len(segs)]

RECURSIVE Flatten(_)
Flatten(pieces) == IF pieces = <<>> THEN <<>> ELSE Head(pieces) \o Flatten(Tail(pieces))

\* each whitespace character that starts a run becomes the delimiter, the rest of the run goes
CollapseRuns(s, delim) ==
    Flatten([i \in DOMAIN s |->
                IF ~IsSpace(s[i]) THEN <<s[i]>>
                ELSE IF i = 1 \/ ~IsSpace(s[i - 1]) THEN delim
                ELSE <<>>])

KeepWordOrSpace(c) == IsWord(c) \/ IsSpace(c)

Sanitize(s, o) ==
    LET folded   == IF o.lowercase THEN [i \in DOMAIN s |-> LowerOf(s[i])] ELSE s
        stripped == IF o.nonwordchars THEN folded ELSE SelectSeq(folded, KeepWordOrSpace)
    IN  CollapseRuns(stripped, o.word_delimiter)

(* C4: resolve(path) returns a string, never fails, and equals
   sanitize(str(walk(path))): walk follows the '__'-separated segments from
   the root and is None from the first absent attribute or None value on;
   sanitize lowercases (if lowercase), then drops what is neither a word
   character nor whitespace (unless nonwordchars), then turns every maximal
   whitespace run into one word_delimiter. *)
C4_ResolveIsSanitizedWalk ==
    last.op = "getitem" =>
        /\ last.out.err = ""
        /\ last.out.s = Sanitize(Str(WalkValues(last.root, Split(last.arg))), last.cfg)

\* a walk that ends at a None relation, and a value with a whitespace run
C4_Witness ==
    /\ last.op = "getitem" /\ last.root = 1
    /\ \/ /\ last.arg = <<"b", "_", "_", "a", "_", "_", "n">>
          /\ rel[1][<<"b">>] = 2 /\ rel[2][<<"a">>] = 0
          /\ last.cfg.lowercase /\ last.out.s = <<"n", "o", "n", "e">>
       \/ /\ last.arg = <<"a", "_", "_", "n">>
          /\ rel[1][<<"a">>] = 3 /\ val[3] = <<" ", "-", "\t", "B", ".">>
          /\ last.cfg.lowercase /\ ~last.cfg.nonwordchars
          /\ last.cfg.word_delimiter = <<"-">> /\ last.out.s = <<"-", "b">>

(***************************************************************************)
(* upload_to over filenames and options.                                   *)
(***************************************************************************)
Filenames ==
    { <<"p", ".", "P">>, <<"P">>, <<".", "P">>, <<".", ".", "P">>, <<"/", ".", "P">>,
      <<"p", ".", "/", "P">>, <<"p", ".", "P", ".", "g">>, <<"p", ".">>, <<>> }

\* an upload_to made by format_filename for each choice of keyword arguments
ExtInit ==
    /\ rel \in { g \in NearGraphs : g[1][<<"b">>] = 0 /\ (2 \in Recs => g[2][<<"a">>] = 0) }
    /\ val = DefaultVal
    /\ checked_models = <<>>
    /\ last = NoCall
    /\ conf \in { [cfg |-> Cfg(pattern, e, l, w, <<"_">>), model |-> 0] :
                    pattern \in { <<"{", "n", "}">>, <<"{", "a", "_", "_", "n", "}">> },
                    e \in BOOLEAN, l \in BOOLEAN, w \in BOOLEAN }
    /\ NoEnum
    /\ NoWalk

\* upload_to is called on an instance of each class
ExtNext ==
    \E root \in {1, 2} \cap Recs, old_filename \in Filenames :
        Build(conf.cfg, root, old_filename)

ExtSpec == ExtInit /\ [][ExtNext]_vars

\* the suffix from the last dot on, empty without a dot
LastDotSuffix(name) ==
    IF \E i \in DOMAIN name : name[i] = "."
    THEN LET d == CHOOSE i \in DOMAIN name :
                      name[i] = "." /\ \A j \in (i + 1)..Len(name) : name[j] # "."
         IN  SubSeq(name, d, Len(name))
    ELSE <<>>

(* the suffix from the last dot on, if that dot lies in the last path
   component and a character other than a dot precedes it there; empty
   otherwise *)
ComponentExt(name) ==
    LET ds == { d \in DOMAIN name :
                  /\ name[d] = "."
                  /\ \A j \in (d + 1)..Len(name) : name[j] \notin {".", "/"}
                  /\ \E k \in 1..(d - 1) :
                         /\ name[k] \notin {".", "/"}
                         /\ \A j \in k..d : name[j] # "/" }
    IN  IF ds = {} THEN <<>> ELSE SubSeq(name, CHOOSE d \in ds : TRUE, Len(name))

\* the call's result when ext is what the filename's extension is taken to be
Appended(ext) ==
    LET sub == Format(last'.cfg.pattern, 1, last'.root,
                      keys(last'.root, checked_models).keys, last'.cfg)
    IN  IF sub.err # "" THEN sub
        ELSE IF last'.cfg.add_extension THEN Ok(sub.s \o ext) ELSE sub

(* C6 as stated: build returns the substituted pattern followed by the
   suffix of the original filename from its last dot on, unchanged (and
   without it when add_extension is false). *)
C6_LastDotAppended ==
    [][ last'.op = "build" => last'.out = Appended(LastDotSuffix(last'.arg)) ]_vars

(* C6 amended: build returns the substituted pattern (and fails as the
   substitution fails) followed, when add_extension is true, by the
   extension os.path.splitext gives: the suffix from the last dot on,
   unchanged, provided that dot is in the last path component and is not
   one of its leading dots, and nothing otherwise. *)
C6_SplitextAppended ==
    [][ last'.op = "build" => last'.out = Appended(ComponentExt(last'.arg)) ]_vars

\* "/.P" has a last dot and no extension; "P.P" keeps its upper-case extension
C6_Witness ==
    /\ last.op = "build" /\ last.cfg.add_extension /\ last.cfg.lowercase
    /\ last.cfg.pattern = <<"{", "n", "}">> /\ last.root = 1
    /\ \/ last.arg = <<"/", ".", "P">> /\ last.out = Ok(<<"a", "d", "_", "t">>)
       \/ last.arg = <<"P", ".", "P">> /\ last.out = Ok(<<"a", "d", "_", "t", ".", "P">>)

(***************************************************************************)
(* Enum                                                                    *)
(***************************************************************************)
NameSet  == {"RED", "GREEN", "BLUE"}
CodeSet  == {"r", "g"}
LabelSet == {"Red", "Green"}

Perms(n) == { f \in [1..n -> 1..n] : \A i, j \in 1..n : f[i] = f[j] => i = j }

\* the keyword arguments of a call Enum(NAME=(code, label), ...), as written
Calls ==
    UNION { { k \in [1..n -> [name : NameSet, code : CodeSet, label : LabelSet]] :
                \A i, j \in 1..n : k[i].name = k[j].name => i = j } : n \in 0..MaxEnum }

\* kwargs.values() / kwargs.items() / kwargs.keys(): the dict's iteration order
DictOrder(kw, ord) == [i \in DOMAIN ord |-> kw[ord[i]]]

\* line 109: kwargs.values()
DictValues(kw, ord) ==
    [i \in DOMAIN ord |-> <<DictOrder(kw, ord)[i].code, DictOrder(kw, ord)[i].label>>]

(* Enum.__init__: the dict the keyword arguments arrive in iterates in an
   order of its own, one of the permutations of the arguments as written. *)
EnumInit ==
    /\ kwargs \in Calls
    /\ order \in Perms(Len(kwargs))
    /\ choices = DictValues(kwargs, order)
    /\ last = NoCall
    /\ rel = [r \in Recs |-> [f \in {<<"a">>, <<"b">>} |-> 0]]
    /\ val = DefaultVal
    /\ checked_models = <<>>
    /\ conf = NoConf
    /\ NoWalk

\* line 116
enum_choices == choices

\* line 119
enum_keys == [i \in DOMAIN order |-> DictOrder(kwargs, order)[i].name]

\* the codes in the order the constants were written
enum_values_written == [i \in DOMAIN kwargs |-> kwargs[i].code]

\* line 122: [val[0] for val in self.__kwargs.values()]
enum_values == [i \in DOMAIN order |-> DictValues(kwargs, order)[i][1]]

\* line 125: [val[1] for val in self.__kwargs.values()]
enum_labels == [i \in DOMAIN order |-> DictValues(kwargs, order)[i][2]]

\* the loop runs to its end and the last match is what is returned
RECURSIVE LastLabelFrom(_, _, _)
LastLabelFrom(enum_value, i, found) ==
    IF i > Len(choices) THEN found
    ELSE LastLabelFrom(enum_value, i + 1,
                       IF enum_value = choices[i][1] THEN StrV(choices[i][2]) ELSE found)

get_label_last(enum_value) == LastLabelFrom(enum_value, 1, None)

\* lines 128-130 from the i-th pair on; falling off the loop returns None
RECURSIVE LabelFrom(_, _)
LabelFrom(enum_value, i) ==
    IF i > Len(choices) THEN None
    ELSE IF enum_value = choices[i][1] THEN StrV(choices[i][2])
    ELSE LabelFrom(enum_value, i + 1)

\* Enum.get_label
get_label(enum_value) == LabelFrom(enum_value, 1)

ListCall(op, result) ==
    /\ last' = [NoCall EXCEPT !.op = op, !.list = result]
    /\ UNCHANGED <<rel, val, checked_models, kwargs, order, choices, conf, stack, acc>>

CallChoices == ListCall("choices", enum_choices)
CallKeys == ListCall("keys", enum_keys)
CallValues == ListCall("values", enum_values)
CallLabels == ListCall("labels", enum_labels)

CallGetLabel(enum_value) ==
    /\ last' = [NoCall EXCEPT !.op = "get_label", !.arg = enum_value,
                              !.value = get_label(enum_value)]
    /\ UNCHANGED <<rel, val, checked_models, kwargs, order, choices, conf, stack, acc>>

EnumNext ==
    \/ CallChoices
    \/ CallKeys
    \/ CallValues
    \/ CallLabels
    \/ \E enum_value \in CodeSet \cup {"x"} : CallGetLabel(enum_value)

EnumSpec == EnumInit /\ [][EnumNext]_vars

\* what the call named op returns in the current state
Returned(op) ==
    CASE op = "choices" -> enum_choices
      [] op = "keys" -> enum_keys
      [] op = "values" -> enum_values
      [] op = "labels" -> enum_labels

ListOps == {"choices", "keys", "values", "labels"}

(* C7 as stated: choices(), keys(), values() and labels() list the entries
   in construction order. *)
C7_ConstructionOrder ==
    /\ last.op = "choices" =>
           last.list = [i \in DOMAIN kwargs |-> <<kwargs[i].code, kwargs[i].label>>]
    /\ last.op = "keys" => last.list = [i \in DOMAIN kwargs |-> kwargs[i].name]
    /\ last.op = "values" => last.list = [i \in DOMAIN kwargs |-> kwargs[i].code]
    /\ last.op = "labels" => last.list = [i \in DOMAIN kwargs |-> kwargs[i].label]

(* C7 amended: after any sequence of calls the four lists have one entry
   per constant, name every constant once, and are position-aligned:
   choices()[i] = (values()[i], labels()[i]) is the (code, label) pair given
   for keys()[i].  Their common order is the dict's, not the order written. *)
C7_Aligned ==
    last.op \in ListOps =>
        LET c == Returned("choices")
            k == Returned("keys")
            v == Returned("values")
            l == Returned("labels")
            n == Len(kwargs)
        IN  /\ last.list = Returned(last.op)
            /\ Len(c) = n /\ Len(k) = n /\ Len(v) = n /\ Len(l) = n
            /\ \A j \in 1..n : \E i \in 1..n : k[i] = kwargs[j].name
            /\ \A i \in 1..n :
                   /\ c[i] = <<v[i], l[i]>>
                   /\ \E j \in 1..n :
                          kwargs[j].name = k[i] /\ c[i] = <<kwargs[j].code, kwargs[j].label>>

\* Enum(RED=("r", "Red"), GREEN=("g", "Green")) whose dict yields GREEN first
C7_Witness ==
    /\ kwargs = << [name |-> "RED", code |-> "r", label |-> "Red"],
                   [name |-> "GREEN", code |-> "g", label |-> "Green"] >>
    /\ last.op = "choices"
    /\ last.list = << <<"g", "Green">>, <<"r", "Red">> >>

FirstWith(seq, Test(_)) ==
    CHOOSE i \in DOMAIN seq : Test(seq[i]) /\ \A j \in 1..(i - 1) : ~Test(seq[j])

(* C8 as stated: get_label returns the label of the first entry in
   construction order with the code, None if there is none. *)
C8_FirstInConstructionOrder ==
    last.op = "get_label" =>
        LET Has(e) == e.code = last.arg
        IN  last.value = IF \E i \in DOMAIN kwargs : Has(kwargs[i])
                         THEN StrV(kwargs[FirstWith(kwargs, Has)].label)
                         ELSE None

(* C8 amended: get_label returns the label of the first pair of choices()
   with the code, also when several pairs share it, and None (no error)
   when no pair has it. *)
C8_FirstInChoices ==
    last.op = "get_label" =>
        LET c == Returned("choices")
            Has(pair) == pair[1] = last.arg
        IN  last.value = IF \E i \in DOMAIN c : Has(c[i])
                         THEN StrV(c[FirstWith(c, Has)][2])
                         ELSE None

\* two constants share the code "r"; the dict yields GREEN before RED
C8_Witness ==
    /\ kwargs = << [name |-> "RED", code |-> "r", label |-> "Red"],
                   [name |-> "GREEN", code |-> "r", label |-> "Green"] >>
    /\ order = <<2, 1>>
    /\ last.op = "get_label" /\ last.arg = "r" /\ last.value = StrV("Green")

====
